---- MODULE Spec2Model ----
(***************************************************************************)
(* Model of the temperature-logger HTTP API (src/app.py): the DB helper    *)
(* (connect / statement / commit / rollback / disconnect), the request     *)
(* validators and the route handlers, run by concurrent request workers    *)
(* against one MySQL database.                                             *)
(*                                                                         *)
(* One worker serves one request at a time.  A handler is a sequence of    *)
(* DB helper calls; each DB helper call is one atomic step (a single       *)
(* statement in its own transaction on its own connection), so requests    *)
(* of different workers interleave between the write and the read-back.    *)
(***************************************************************************)
EXTENDS Integers, Sequences, FiniteSets, TLC

\* Highest auto-increment log_id the model hands out.
MaxLogs == 2

Workers == {"w1", "w2"}

\* Ids used in URL paths.
PathSensorIds == {1, 2}
PathLogIds == 1 .. MaxLogs

-----------------------------------------------------------------------------
(* JSON values of a request body, and Python's int() / float() on them.    *)

JInt(n) == [t |-> "int", i |-> n, s |-> ""]
JStr(x) == [t |-> "str", i |-> 0, s |-> x]
JNull == [t |-> "null", i |-> 0, s |-> ""]

\* Strings int() and float() accept, with their values.
NumericStrings == {"1", "2", "5000"}
StrToInt(x) == CASE x = "1" -> 1 [] x = "2" -> 2 [] x = "5000" -> 5000 [] OTHER -> 0

\* int(v): the value, or the exception Python raises.
PyInt(v) ==
    CASE v.t = "int" -> [exc |-> "None", val |-> v.i]
      [] v.t = "str" /\ v.s \in NumericStrings -> [exc |-> "None", val |-> StrToInt(v.s)]
      [] v.t = "str" -> [exc |-> "ValueError", val |-> 0]
      [] OTHER -> [exc |-> "TypeError", val |-> 0]

\* float(v): same domain as int() on the values used here.
PyFloat(v) ==
    CASE v.t = "int" -> [exc |-> "None", val |-> v.i]
      [] v.t = "str" /\ v.s \in NumericStrings -> [exc |-> "None", val |-> StrToInt(v.s)]
      [] v.t = "str" -> [exc |-> "ValueError", val |-> 0]
      [] OTHER -> [exc |-> "TypeError", val |-> 0]

\* Python truthiness of a JSON value.
Truthy(v) == (v.t = "int" /\ v.i # 0) \/ (v.t = "str" /\ v.s # "")

\* Timestamps are numbered: Now is datetime.utcnow(), 1 is 2025-09-24 13:05:00.
Now == 0
IsoStrings == {"2025-09-24 13:05:00"}
ReplaceT(x) == IF x = "2025-09-24T13:05:00" THEN "2025-09-24 13:05:00" ELSE x
\* v.replace("T", " ") then datetime.fromisoformat(...)
ParseReadTime(v) ==
    CASE v.t # "str" -> [exc |-> "AttributeError", val |-> 0]
      [] ReplaceT(v.s) \in IsoStrings -> [exc |-> "None", val |-> 1]
      [] OTHER -> [exc |-> "ValueError", val |-> 0]
\* datetime.isoformat(sep=" ", timespec="seconds")
IsoFormat(d) == IF d = 1 THEN "2025-09-24 13:05:00" ELSE "utcnow"

-----------------------------------------------------------------------------
(* Exceptions.                                                             *)

NoExc == [type |-> "None", detail |-> "", origin |-> "none"]
Exc(t, d, o) == [type |-> t, detail |-> d, origin |-> o]

\* What the driver can be made to fail at during one DB helper call.
\* "constraint": the row the statement writes violates a declared constraint
\* of the schema other than the primary / foreign key modelled below (NOT
\* NULL, UNIQUE, a referencing table), which the driver reports as an
\* IntegrityError too.
ExecFaults ==
    {{}, {"connect"}, {"stmt"}, {"constraint"}, {"commit"}, {"close"},
     {"stmt", "rollback"}, {"commit", "rollback"}}
FetchFaults == {{}, {"connect"}, {"stmt"}, {"close"}}

-----------------------------------------------------------------------------
(* The database: tables are sets of rows; a statement maps a database to   *)
(* its result (exception or rowcount / lastrowid) and the new database.    *)

StmtOk(db, rc, lastrowid) == [exc |-> NoExc, rc |-> rc, lastrowid |-> lastrowid, db |-> db]
StmtErr(db, e) == [exc |-> e, rc |-> 0, lastrowid |-> 0, db |-> db]

SensorRows(db, id) == {r \in db.sensors : r.sensor_id = id}
LogRows(db, id) == {r \in db.logs : r.log_id = id}

DupDetail == "Duplicate entry for key 'PRIMARY'"
FkDetail == "Cannot add or update a child row: a foreign key constraint fails"
OtherConstraintDetail == "Integrity constraint violation"

\* The schema's constraints: sensors.sensor_id is the primary key, and
\* temperature_log.sensor_id is a foreign key into sensors.
PrimaryKeyTaken(db, id) == SensorRows(db, id) # {}
ForeignKeyMissing(db, id) == SensorRows(db, id) = {}

\* INSERT INTO sensors (...) VALUES (...)
SqlInsertSensor(db, row) ==
    IF PrimaryKeyTaken(db, row.sensor_id)
    THEN StmtErr(db, Exc("IntegrityError", DupDetail, "stmt"))
    ELSE StmtOk([db EXCEPT !.sensors = db.sensors \cup {row}], 1, 0)

\* Row r with the columns named in keys set from vals.
SetColumns(r, keys, vals) ==
    [c \in DOMAIN r |-> IF c \in keys THEN vals[c] ELSE r[c]]

\* UPDATE sensors SET <keys> WHERE sensor_id=id.  The connection is opened
\* without CLIENT.FOUND_ROWS, so rowcount counts the rows actually changed.
SqlUpdateSensor(db, id, keys, vals) ==
    LET old == SensorRows(db, id)
        new == {SetColumns(r, keys, vals) : r \in old}
    IN  StmtOk([db EXCEPT !.sensors = (db.sensors \ old) \cup new],
               Cardinality({r \in old : SetColumns(r, keys, vals) # r}), 0)

\* INSERT INTO temperature_log (...) VALUES (...); log_id auto-increments.
SqlInsertLog(db, row) ==
    IF ForeignKeyMissing(db, row.sensor_id)
    THEN StmtErr(db, Exc("IntegrityError", FkDetail, "stmt"))
    ELSE StmtOk([db EXCEPT !.logs = db.logs \cup {[row EXCEPT !.log_id = db.next]},
                           !.next = db.next + 1], 1, db.next)

\* UPDATE temperature_log SET <keys> WHERE log_id=id.
SqlUpdateLog(db, id, keys, vals) ==
    LET old == LogRows(db, id)
        new == {SetColumns(r, keys, vals) : r \in old}
    IN  IF \E r \in new : ForeignKeyMissing(db, r.sensor_id)
        THEN StmtErr(db, Exc("IntegrityError", FkDetail, "stmt"))
        ELSE StmtOk([db EXCEPT !.logs = (db.logs \ old) \cup new],
                    Cardinality({r \in old : SetColumns(r, keys, vals) # r}), 0)

\* DELETE FROM temperature_log WHERE log_id=id.
SqlDeleteLog(db, id) ==
    StmtOk([db EXCEPT !.logs = db.logs \ LogRows(db, id)],
           Cardinality(LogRows(db, id)), 0)

\* ORDER BY sensor_id ASC
RECURSIVE OrderSensors(_)
OrderSensors(rows) ==
    IF rows = {} THEN <<>>
    ELSE LET m == CHOOSE r \in rows : \A q \in rows : r.sensor_id <= q.sensor_id
         IN  <<m>> \o OrderSensors(rows \ {m})

\* ORDER BY log_id DESC
RECURSIVE OrderLogsDesc(_)
OrderLogsDesc(rows) ==
    IF rows = {} THEN <<>>
    ELSE LET m == CHOOSE r \in rows : \A q \in rows : r.log_id >= q.log_id
         IN  <<m>> \o OrderLogsDesc(rows \ {m})

Min(a, b) == IF a <= b THEN a ELSE b

\* LIMIT l OFFSET o of an ordered result.
LimitOffset(sq, l, o) == SubSeq(sq, o + 1, Min(o + l, Len(sq)))

\* fetchone(): the first row of the result, or None (the empty sequence).
FetchOne(rows) == IF rows = {} THEN <<>> ELSE <<CHOOSE r \in rows : TRUE>>

-----------------------------------------------------------------------------
(* DB helper.                                                              *)

\* DB.__connect__ on a DB object whose conn is c.
Connect(c, F) ==
    IF "connect" \in F
    THEN [conn |-> c, exc |-> Exc("OperationalError", "Can't connect to MySQL server", "connect"),
          opened |-> 0]
    ELSE [conn |-> "open", exc |-> NoExc, opened |-> IF c = "None" THEN 1 ELSE 0]

\* DB.__disconnect__: close() releases the driver connection even when it
\* raises, and the finally clause clears self.conn either way.
DisconnectKeepsConn(c, F) ==
    [conn |-> IF c # "None" /\ "close" \in F THEN c ELSE "None",
     exc |-> IF c # "None" /\ "close" \in F THEN Exc("Error", "close failed", "close") ELSE NoExc,
     closed |-> IF c # "None" THEN 1 ELSE 0]
Disconnect(c, F) ==
    [conn |-> "None",
     exc |-> IF c # "None" /\ "close" \in F THEN Exc("Error", "close failed", "close") ELSE NoExc,
     closed |-> IF c # "None" THEN 1 ELSE 0]

\* What one DB helper call did, kept for the caller: the first exception
\* raised inside the call, the one that left it, and what was called.
NoTrace ==
    [ran |-> FALSE, first |-> NoExc, raised |-> NoExc, commit_called |-> FALSE,
     committed |-> FALSE, rollback_called |-> FALSE, changed |-> FALSE]

\* DB.fetch_all / DB.fetch_one: rows is what the SELECT yields.
Fetch(rows, F) ==
    LET c == Connect("None", F)
    IN  IF c.exc # NoExc
        THEN [exc |-> c.exc, rows |-> {}, conn |-> c.conn, opened |-> c.opened, closed |-> 0]
        ELSE LET e1 == IF "stmt" \in F
                       THEN Exc("OperationalError", "Lost connection during query", "stmt")
                       ELSE NoExc
                 d == Disconnect(c.conn, F)
                 e2 == IF d.exc # NoExc THEN d.exc ELSE e1
             IN  [exc |-> e2, rows |-> IF e2 = NoExc THEN rows ELSE {},
                  conn |-> d.conn, opened |-> c.opened, closed |-> d.closed]

fetch_all(rows, F) == Fetch(rows, F)
fetch_one(rows, F) == Fetch(rows, F)

\* The exception that leaves DB.execute's except clause: rollback() runs
\* first, and an exception it raises replaces the one being handled.
ExceptClause(e, F) ==
    IF e # NoExc /\ "rollback" \in F
    THEN Exc("InterfaceError", "(0, '')", "rollback")
    ELSE e

\* DB.execute: db is the database before, s the statement's result on it.
execute(db, s, F) ==
    LET c == Connect("None", F)
    IN  IF c.exc # NoExc
        THEN [exc |-> c.exc, rc |-> 0, lastrowid |-> 0, db |-> db, conn |-> c.conn,
              opened |-> c.opened, closed |-> 0,
              trace |-> [NoTrace EXCEPT !.ran = TRUE, !.first = c.exc, !.raised = c.exc]]
        ELSE LET st == CASE "stmt" \in F ->
                              StmtErr(db, Exc("OperationalError", "Lost connection during query", "stmt"))
                         [] "constraint" \in F /\ s.exc = NoExc /\ s.rc > 0 ->
                              StmtErr(db, Exc("IntegrityError", OtherConstraintDetail, "stmt"))
                         [] OTHER -> s
                 commit_called == st.exc = NoExc
                 e1 == CASE st.exc # NoExc -> st.exc
                         [] "commit" \in F -> Exc("OperationalError", "Lost connection during commit", "commit")
                         [] OTHER -> NoExc
                 committed == e1 = NoExc
                 e2 == ExceptClause(e1, F)
                 d == Disconnect(c.conn, F)
                 e3 == IF d.exc # NoExc THEN d.exc ELSE e2
                 \* an uncommitted transaction is discarded (by rollback, or by
                 \* the server when the connection goes); the auto-increment
                 \* counter is not transactional
                 after == IF committed THEN st.db ELSE [db EXCEPT !.next = st.db.next]
             IN  [exc |-> e3, rc |-> IF e3 = NoExc THEN st.rc ELSE 0,
                  lastrowid |-> IF e3 = NoExc THEN st.lastrowid ELSE 0,
                  db |-> after, conn |-> d.conn, opened |-> c.opened, closed |-> d.closed,
                  trace |-> [ran |-> TRUE, first |-> e1, raised |-> e3,
                             commit_called |-> commit_called, committed |-> committed,
                             rollback_called |-> e1 # NoExc,
                             changed |-> [after EXCEPT !.next = db.next] # db]]

-----------------------------------------------------------------------------
(* Utilities.                                                              *)

\* as_json on a temperature_log row: the datetime becomes an ISO string.
as_json_log(r) ==
    [log_id |-> r.log_id, read_time |-> IsoFormat(r.read_time), sensor_id |-> r.sensor_id,
     temperature_f |-> r.temperature_f, humidity |-> r.humidity, pressure |-> r.pressure]
\* as_json on a sensors row: no Decimal or datetime column.
as_json_sensor(r) == r
\* as_json on None / a row (a sequence of at most one row) or a list of rows.
as_json_logs(sq) == [k \in 1 .. Len(sq) |-> as_json_log(sq[k])]
as_json_sensors(sq) == [k \in 1 .. Len(sq) |-> as_json_sensor(sq[k])]

\* A response: status code and JSON body, or the exception that left the handler.
Response(code, text) ==
    [code |-> code, text |-> text, args |-> <<>>, raised |-> "None", row |-> <<>>, list |-> <<>>]
bad_request(text, args, code) == [Response(code, text) EXCEPT !.args = args]
Raised(type) == [Response(0, "") EXCEPT !.raised = type]

NoResponse == Response(0, "")

\* Request bodies: is_json is request.is_json; kind "map" is a JSON object with
\* the members named in keys (each with the value val gives it), kind "num" a
\* JSON number, kind "none" an empty or unparseable body.
NoValues ==
    [sensor_id |-> JNull, mac_addr |-> JNull, device_id |-> JNull, device_location |-> JNull,
     temperature_f |-> JNull, humidity |-> JNull, pressure |-> JNull, read_time |-> JNull]
NotJson == [is_json |-> FALSE, kind |-> "none", keys |-> {}, val |-> NoValues]
EmptyBody == [is_json |-> TRUE, kind |-> "none", keys |-> {}, val |-> NoValues]
NumberBody == [is_json |-> TRUE, kind |-> "num", keys |-> {}, val |-> NoValues]
Object(keys, val) == [is_json |-> TRUE, kind |-> "map", keys |-> keys, val |-> val]

\* require_json: (data, err).  get_json(silent=True) or {} keeps a truthy
\* non-object value as it is.
require_json(body) ==
    IF ~body.is_json
    THEN [err |-> TRUE, data |-> body,
          resp |-> bad_request("Content-Type must be application/json", <<>>, 415)]
    ELSE [err |-> FALSE,
          data |-> IF body.kind = "none" THEN Object({}, NoValues) ELSE body,
          resp |-> NoResponse]

\* The required keys not in data, in the order of required.
Missing(required, data) == SelectSeq(required, LAMBDA k : k \notin data.keys)

-----------------------------------------------------------------------------
(* Route handlers.  A handler step maps the database, the request and the  *)
(* driver's faults to an outcome: the response (next = "done") or the      *)
(* read-back still to run (next = "readback"), the database afterwards     *)
(* and what the DB helper call did.                                        *)

\* The handler answered without calling the DB helper.
NoCall(db, rs) ==
    [next |-> "done", resp |-> rs, db |-> db, calls |-> 0, conn |-> "None",
     opened |-> 0, closed |-> 0, trace |-> NoTrace, last_id |-> 0]
\* The handler answered after a fetch_all / fetch_one.
Fetched(db, f, rs) ==
    [next |-> "done", resp |-> rs, db |-> db, calls |-> 1, conn |-> f.conn,
     opened |-> f.opened, closed |-> f.closed, trace |-> NoTrace, last_id |-> 0]
\* The handler answered, or goes on to its read-back, after an execute.
Executed(e, nxt, rs) ==
    [next |-> nxt, resp |-> rs, db |-> e.db, calls |-> 1, conn |-> e.conn,
     opened |-> e.opened, closed |-> e.closed, trace |-> e.trace, last_id |-> e.lastrowid]

home(db) == NoCall(db, Response(200, "Temperature Logger API"))

health(db, F) ==
    LET f == fetch_one({}, F)
    IN  Fetched(db, f, IF f.exc # NoExc THEN Response(503, "degraded") ELSE Response(200, "ok"))

list_sensors(db, F) ==
    LET f == fetch_all(db.sensors, F)
    IN  Fetched(db, f,
                IF f.exc # NoExc THEN Raised(f.exc.type)
                ELSE [Response(200, "") EXCEPT !.list = as_json_sensors(OrderSensors(f.rows))])

get_sensor(db, id, F) ==
    LET f == fetch_one(SensorRows(db, id), F)
        row == FetchOne(f.rows)
    IN  Fetched(db, f,
                CASE f.exc # NoExc -> Raised(f.exc.type)
                  [] row = <<>> -> bad_request("Sensor not found", <<>>, 404)
                  [] OTHER -> [Response(200, "") EXCEPT !.row = <<as_json_sensor(row[1])>>])

SensorRequired == <<"sensor_id", "mac_addr", "device_id", "device_location">>

\* The except clauses of create_sensor, create_temperature and update_log.
IntegrityOrFailedGeneric(e, failed) == bad_request(failed, <<>>, 400)
IntegrityOrFailedConflict(e, failed) ==
    IF e.type = "IntegrityError"
    THEN bad_request("Integrity error: ", <<e.detail>>, 409)
    ELSE bad_request(failed, <<>>, 400)
IntegrityOrFailed(e, failed) ==
    IF e.type = "IntegrityError"
    THEN bad_request("Integrity error: ", <<e.detail>>, 400)
    ELSE bad_request(failed, <<>>, 400)

create_sensor(db, body, F) ==
    LET rj == require_json(body)
        data == rj.data
        sid == PyInt(data.val.sensor_id)
        row == [sensor_id |-> sid.val, mac_addr |-> data.val.mac_addr,
                device_id |-> data.val.device_id, device_location |-> data.val.device_location]
        e == execute(db, SqlInsertSensor(db, row), F)
    IN  CASE rj.err -> NoCall(db, rj.resp)
          [] data.kind = "num" -> NoCall(db, Raised("TypeError"))
          [] Missing(SensorRequired, data) # <<>> ->
                NoCall(db, bad_request("Missing fields: ", Missing(SensorRequired, data), 400))
          [] sid.exc # "None" -> NoCall(db, bad_request("Failed to create sensor", <<>>, 400))
          [] e.exc # NoExc -> Executed(e, "done", IntegrityOrFailed(e.exc, "Failed to create sensor"))
          [] OTHER -> Executed(e, "readback", NoResponse)

create_sensor_read_back(db, body, F) ==
    LET sid == PyInt(require_json(body).data.val.sensor_id)
        f == fetch_one(SensorRows(db, sid.val), F)
        row == FetchOne(f.rows)
    IN  Fetched(db, f,
                IF f.exc # NoExc THEN bad_request("Failed to create sensor", <<>>, 400)
                ELSE [Response(201, "sensor created") EXCEPT
                         !.row = IF row = <<>> THEN <<>> ELSE <<as_json_sensor(row[1])>>])

SensorUpdatable == <<"mac_addr", "device_id", "device_location">>
Range(sq) == {sq[k] : k \in DOMAIN sq}

update_sensor(db, id, body, F) ==
    LET rj == require_json(body)
        data == rj.data
        fields == SelectSeq(SensorUpdatable, LAMBDA k : k \in data.keys)
        e == execute(db, SqlUpdateSensor(db, id, Range(fields), data.val), F)
    IN  CASE rj.err -> NoCall(db, rj.resp)
          [] data.kind = "num" -> NoCall(db, Raised("TypeError"))
          [] fields = <<>> -> NoCall(db, bad_request("No updatable fields provided", <<>>, 400))
          [] e.exc # NoExc -> Executed(e, "done", bad_request("Failed to update sensor", <<>>, 400))
          [] e.rc = 0 -> Executed(e, "done", bad_request("Sensor not found", <<>>, 404))
          [] OTHER -> Executed(e, "readback", NoResponse)

update_sensor_read_back(db, id, F) ==
    LET f == fetch_one(SensorRows(db, id), F)
        row == FetchOne(f.rows)
    IN  Fetched(db, f,
                IF f.exc # NoExc THEN bad_request("Failed to update sensor", <<>>, 400)
                ELSE [Response(200, "sensor updated") EXCEPT
                         !.row = IF row = <<>> THEN <<>> ELSE <<as_json_sensor(row[1])>>])

LogRequired == <<"sensor_id", "temperature_f", "humidity", "pressure">>
ReadTimeMessage == "read_time must be ISO-like (e.g., '2025-09-24 13:05:00')"

create_temperature(db, body, F) ==
    LET rj == require_json(body)
        data == rj.data
        \* data.get("read_time"): None when the key is absent
        read_time == IF "read_time" \in data.keys THEN data.val.read_time ELSE JNull
        parsed == ParseReadTime(read_time)
        dt == IF Truthy(read_time) THEN parsed.val ELSE Now
        sid == PyInt(data.val.sensor_id)
        tf == PyFloat(data.val.temperature_f)
        hu == PyFloat(data.val.humidity)
        pr == PyFloat(data.val.pressure)
        row == [log_id |-> 0, read_time |-> dt, sensor_id |-> sid.val,
                temperature_f |-> tf.val, humidity |-> hu.val, pressure |-> pr.val]
        e == execute(db, SqlInsertLog(db, row), F)
    IN  CASE rj.err -> NoCall(db, rj.resp)
          [] data.kind = "num" -> NoCall(db, Raised("TypeError"))
          [] Missing(LogRequired, data) # <<>> ->
                NoCall(db, bad_request("Missing fields: ", Missing(LogRequired, data), 400))
          [] Truthy(read_time) /\ parsed.exc # "None" ->
                NoCall(db, bad_request(ReadTimeMessage, <<>>, 400))
          [] \E c \in {sid, tf, hu, pr} : c.exc # "None" ->
                NoCall(db, bad_request("Failed to create log", <<>>, 400))
          [] e.exc # NoExc -> Executed(e, "done", IntegrityOrFailed(e.exc, "Failed to create log"))
          [] OTHER -> Executed(e, "readback", NoResponse)

create_temperature_read_back(db, last_id, F) ==
    LET f == fetch_one(LogRows(db, last_id), F)
        row == FetchOne(f.rows)
    IN  Fetched(db, f,
                IF f.exc # NoExc THEN bad_request("Failed to create log", <<>>, 400)
                ELSE [Response(201, "log created") EXCEPT
                         !.row = IF row = <<>> THEN <<>> ELSE <<as_json_log(row[1])>>])

\* request.args.get("limit", 100) / ("offset", 0): a string, or the default.
DefaultLimit == 100
LimitCap == 1000

list_temperatures(db, limit, offset, F) ==
    LET l == PyInt(limit)
        o == PyInt(offset)
        f == fetch_all(db.logs, F)
    IN  CASE l.exc # "None" \/ o.exc # "None" ->
                NoCall(db, bad_request("limit and offset must be integers", <<>>, 400))
          [] f.exc # NoExc -> Fetched(db, f, Raised(f.exc.type))
          [] OTHER ->
                Fetched(db, f, [Response(200, "") EXCEPT
                    !.list = as_json_logs(LimitOffset(OrderLogsDesc(f.rows),
                                                      Min(l.val, LimitCap), o.val))])

get_log(db, id, F) ==
    LET f == fetch_one(LogRows(db, id), F)
        row == FetchOne(f.rows)
    IN  Fetched(db, f,
                CASE f.exc # NoExc -> Raised(f.exc.type)
                  [] row = <<>> -> bad_request("log not found", <<>>, 404)
                  [] OTHER -> [Response(200, "") EXCEPT !.row = <<as_json_log(row[1])>>])

LogUpdatable == <<"read_time", "sensor_id", "temperature_f", "humidity", "pressure">>

\* The first of update_log's per-field checks that ends the request; the
\* handler catches only ValueError around int() and float().
FieldCheck(data) ==
    LET rt == ParseReadTime(data.val.read_time)
        sid == PyInt(data.val.sensor_id)
        tf == PyFloat(data.val.temperature_f)
        hu == PyFloat(data.val.humidity)
        pr == PyFloat(data.val.pressure)
        Conv(c, msg) == IF c.exc = "ValueError" THEN bad_request(msg, <<>>, 400)
                        ELSE Raised(c.exc)
    IN  CASE "read_time" \in data.keys /\ rt.exc # "None" -> bad_request(ReadTimeMessage, <<>>, 400)
          [] "sensor_id" \in data.keys /\ sid.exc # "None" -> Conv(sid, "sensor_id must be an integer")
          [] "temperature_f" \in data.keys /\ tf.exc # "None" -> Conv(tf, "temperature_f must be a number")
          [] "humidity" \in data.keys /\ hu.exc # "None" -> Conv(hu, "humidity must be a number")
          [] "pressure" \in data.keys /\ pr.exc # "None" -> Conv(pr, "pressure must be a number")
          [] OTHER -> NoResponse

update_log(db, id, body, F) ==
    LET rj == require_json(body)
        data == rj.data
        sets == SelectSeq(LogUpdatable, LAMBDA k : k \in data.keys)
        vals == [log_id |-> id, read_time |-> ParseReadTime(data.val.read_time).val,
                 sensor_id |-> PyInt(data.val.sensor_id).val,
                 temperature_f |-> PyFloat(data.val.temperature_f).val,
                 humidity |-> PyFloat(data.val.humidity).val,
                 pressure |-> PyFloat(data.val.pressure).val]
        e == execute(db, SqlUpdateLog(db, id, Range(sets), vals), F)
    IN  CASE rj.err -> NoCall(db, rj.resp)
          [] data.kind = "num" -> NoCall(db, Raised("TypeError"))
          [] FieldCheck(data) # NoResponse -> NoCall(db, FieldCheck(data))
          [] sets = <<>> -> NoCall(db, bad_request("No updatable fields provided", <<>>, 400))
          [] e.exc # NoExc -> Executed(e, "done", IntegrityOrFailed(e.exc, "Failed to update log"))
          [] e.rc = 0 -> Executed(e, "done", bad_request("log not found", <<>>, 404))
          [] OTHER -> Executed(e, "readback", NoResponse)

update_log_read_back(db, id, F) ==
    LET f == fetch_one(LogRows(db, id), F)
        row == FetchOne(f.rows)
    IN  Fetched(db, f,
                IF f.exc # NoExc THEN bad_request("Failed to update log", <<>>, 400)
                ELSE [Response(200, "log updated") EXCEPT
                         !.row = IF row = <<>> THEN <<>> ELSE <<as_json_log(row[1])>>])

delete_log_ignoring_rowcount(db, id, F) ==
    LET e == execute(db, SqlDeleteLog(db, id), F)
    IN  CASE e.exc # NoExc -> Executed(e, "done", bad_request("Failed to delete log", <<>>, 400))
          [] OTHER -> Executed(e, "done", Response(200, "log deleted"))
delete_log(db, id, F) ==
    LET e == execute(db, SqlDeleteLog(db, id), F)
    IN  CASE e.exc # NoExc -> Executed(e, "done", bad_request("Failed to delete log", <<>>, 400))
          [] e.rc = 0 -> Executed(e, "done", bad_request("log not found", <<>>, 404))
          [] OTHER -> Executed(e, "done", Response(200, "log deleted"))

-----------------------------------------------------------------------------
(* Requests the workers are given.                                         *)

SensorBody(sid, mac) ==
    Object({"sensor_id", "mac_addr", "device_id", "device_location"},
           [NoValues EXCEPT !.sensor_id = sid, !.mac_addr = JStr(mac),
                            !.device_id = JStr("pi-1"), !.device_location = JStr("attic")])

CreateSensorBodies ==
    {NotJson, NumberBody, EmptyBody,
     Object({"sensor_id", "mac_addr"}, [NoValues EXCEPT !.sensor_id = JInt(1)]),
     SensorBody(JInt(1), "aa:01"), SensorBody(JInt(1), "aa:02"),
     SensorBody(JStr("x"), "aa:01"), SensorBody(JNull, "aa:01")}

UpdateSensorBodies ==
    {NotJson, NumberBody, EmptyBody,
     Object({"mac_addr"}, [NoValues EXCEPT !.mac_addr = JStr("aa:01")]),
     Object({"mac_addr"}, [NoValues EXCEPT !.mac_addr = JStr("aa:02")])}

LogBody(keys, sid, tf, rt) ==
    Object({"sensor_id", "temperature_f", "humidity", "pressure"} \cup keys,
           [NoValues EXCEPT !.sensor_id = sid, !.temperature_f = tf, !.humidity = JInt(44),
                            !.pressure = JInt(995), !.read_time = rt])

CreateTemperatureBodies ==
    {NotJson, NumberBody, EmptyBody,
     LogBody({}, JInt(1), JInt(70), JNull),
     LogBody({"read_time"}, JInt(1), JInt(70), JStr("2025-09-24T13:05:00")),
     LogBody({"read_time"}, JInt(1), JInt(70), JStr("yesterday")),
     LogBody({}, JInt(2), JInt(70), JNull),
     LogBody({}, JStr("x"), JInt(70), JNull),
     LogBody({}, JNull, JInt(70), JNull),
     LogBody({}, JInt(1), JStr("warm"), JNull)}

UpdateLogBodies ==
    {NotJson, NumberBody, EmptyBody,
     Object({"sensor_id"}, [NoValues EXCEPT !.sensor_id = JInt(1)]),
     Object({"sensor_id"}, [NoValues EXCEPT !.sensor_id = JInt(2)]),
     Object({"sensor_id"}, [NoValues EXCEPT !.sensor_id = JStr("x")]),
     Object({"sensor_id"}, [NoValues EXCEPT !.sensor_id = JNull]),
     Object({"temperature_f"}, [NoValues EXCEPT !.temperature_f = JStr("warm")]),
     Object({"temperature_f"}, [NoValues EXCEPT !.temperature_f = JNull]),
     Object({"read_time"}, [NoValues EXCEPT !.read_time = JStr("2025-09-24T13:05:00")]),
     Object({"read_time"}, [NoValues EXCEPT !.read_time = JStr("yesterday")])}

Limits == {JInt(DefaultLimit), JStr("5000"), JStr("x")}
Offsets == {JInt(0)}

\* Worker w1 is given requests of every kind with every driver fault.  Worker
\* w2 is the concurrent client: it is given the writes that can change a
\* row (what another request's statement or read-back then finds), without
\* driver faults.
General(w) == w = "w1"
Changing(body) ==
    /\ body.kind = "map"
    /\ body.keys \in {{"sensor_id", "mac_addr", "device_id", "device_location"}, {"mac_addr"},
                      {"sensor_id", "temperature_f", "humidity", "pressure"},
                      {"sensor_id", "temperature_f", "humidity", "pressure", "read_time"},
                      {"read_time"}}
    /\ "sensor_id" \in body.keys => body.val.sensor_id = JInt(1)
    /\ "mac_addr" \in body.keys => body.val.mac_addr = JStr("aa:02")
    /\ "temperature_f" \in body.keys => body.val.temperature_f.t = "int"
    /\ "read_time" \in body.keys => ParseReadTime(body.val.read_time).exc = "None"
BodiesOf(w, bodies) == IF General(w) THEN bodies ELSE {b \in bodies : Changing(b)}
SensorIdsOf(w) == IF General(w) THEN PathSensorIds ELSE {1}
FaultsOf(w, faults) == IF General(w) THEN faults ELSE {{}}

\* had_sensor / had_log: whether the sensor and the log the request names
\* were in the database when the handler started.
Request(ep, id, body) ==
    [ep |-> ep, id |-> id, body |-> body, limit |-> JInt(DefaultLimit), offset |-> JInt(0),
     had_sensor |-> FALSE, had_log |-> FALSE]
NoRequest == Request("none", 0, NotJson)

\* The sensor_id a request names: in the path, or as an integer in the body.
NamesSensor(rq) ==
    \/ rq.ep \in {"get_sensor", "update_sensor"}
    \/ /\ rq.ep \in {"create_sensor", "create_temperature", "update_log"}
       /\ rq.body.is_json /\ rq.body.kind = "map" /\ "sensor_id" \in rq.body.keys
       /\ PyInt(rq.body.val.sensor_id).exc = "None"
NamedSensor(rq) ==
    IF rq.ep \in {"get_sensor", "update_sensor"} THEN rq.id
    ELSE PyInt(rq.body.val.sensor_id).val
NamesLog(rq) == rq.ep \in {"get_log", "update_log", "delete_log"}

Arriving(db, rq) ==
    [rq EXCEPT !.had_sensor = NamesSensor(rq) /\ SensorRows(db, NamedSensor(rq)) # {},
               !.had_log = NamesLog(rq) /\ LogRows(db, rq.id) # {}]

-----------------------------------------------------------------------------
(* State.                                                                  *)

VARIABLES
    sensors,          \* table sensors: a set of rows
    temperature_log,  \* table temperature_log: a set of rows
    next_log_id,      \* the table's auto-increment counter
    open_conns,       \* driver connections currently open
    pc,               \* per worker: "idle", "readback" or "done"
    req,              \* per worker: the request being served
    resp,             \* per worker: the response (when pc is "done")
    last_id,          \* per worker: lastrowid of the handler's execute
    conn,             \* per worker: self.conn of the DB object last used
    db_calls,         \* per worker: DB helper calls made for the request
    trace,            \* per worker: what the request's execute did
    del_ok            \* per log_id: DELETE requests answered 200 so far

dbvars == <<sensors, temperature_log, next_log_id>>
vars == <<sensors, temperature_log, next_log_id, open_conns, pc, req, resp, last_id,
          conn, db_calls, trace, del_ok>>

DB == [sensors |-> sensors, logs |-> temperature_log, next |-> next_log_id]

Init ==
    /\ sensors = {}
    /\ temperature_log = {}
    /\ next_log_id = 1
    /\ open_conns = 0
    /\ pc = [w \in Workers |-> "idle"]
    /\ req = [w \in Workers |-> NoRequest]
    /\ resp = [w \in Workers |-> NoResponse]
    /\ last_id = [w \in Workers |-> 0]
    /\ conn = [w \in Workers |-> "None"]
    /\ db_calls = [w \in Workers |-> 0]
    /\ trace = [w \in Workers |-> NoTrace]
    /\ del_ok = [id \in PathLogIds |-> 0]

\* Worker w's handler step for request rq ends with outcome o.
Step(w, rq, o) ==
    /\ sensors' = o.db.sensors
    /\ temperature_log' = o.db.logs
    /\ next_log_id' = o.db.next
    /\ open_conns' = open_conns + o.opened - o.closed
    /\ pc' = [pc EXCEPT ![w] = o.next]
    /\ req' = [req EXCEPT ![w] = IF pc[w] = "idle" THEN Arriving(DB, rq) ELSE rq]
    /\ resp' = [resp EXCEPT ![w] = o.resp]
    /\ last_id' = [last_id EXCEPT ![w] = IF o.trace.ran THEN o.last_id ELSE @]
    /\ conn' = [conn EXCEPT ![w] = o.conn]
    /\ db_calls' = [db_calls EXCEPT ![w] = @ + o.calls]
    /\ trace' = [trace EXCEPT ![w] = IF o.trace.ran THEN o.trace ELSE @]
    /\ del_ok' = IF rq.ep = "delete_log" /\ o.resp.code = 200
                 THEN [del_ok EXCEPT ![rq.id] = Min(@ + 1, 2)]
                 ELSE del_ok

Home(w) ==
    /\ pc[w] = "idle" /\ General(w)
    /\ Step(w, Request("home", 0, NotJson), home(DB))

Health(w) ==
    /\ pc[w] = "idle" /\ General(w)
    /\ \E F \in FetchFaults : Step(w, Request("health", 0, NotJson), health(DB, F))

ListSensors(w) ==
    /\ pc[w] = "idle" /\ General(w)
    /\ \E F \in FetchFaults : Step(w, Request("list_sensors", 0, NotJson), list_sensors(DB, F))

GetSensor(w) ==
    /\ pc[w] = "idle" /\ General(w)
    /\ \E id \in PathSensorIds, F \in FetchFaults :
          Step(w, Request("get_sensor", id, NotJson), get_sensor(DB, id, F))

CreateSensor(w) ==
    /\ pc[w] = "idle"
    /\ \E body \in BodiesOf(w, CreateSensorBodies), F \in FaultsOf(w, ExecFaults) :
          Step(w, Request("create_sensor", 0, body), create_sensor(DB, body, F))

CreateSensorReadBack(w) ==
    /\ pc[w] = "readback" /\ req[w].ep = "create_sensor"
    /\ \E F \in FaultsOf(w, FetchFaults) : Step(w, req[w], create_sensor_read_back(DB, req[w].body, F))

UpdateSensor(w) ==
    /\ pc[w] = "idle"
    /\ \E id \in SensorIdsOf(w), body \in BodiesOf(w, UpdateSensorBodies), F \in FaultsOf(w, ExecFaults) :
          Step(w, Request("update_sensor", id, body), update_sensor(DB, id, body, F))

UpdateSensorReadBack(w) ==
    /\ pc[w] = "readback" /\ req[w].ep = "update_sensor"
    /\ \E F \in FaultsOf(w, FetchFaults) : Step(w, req[w], update_sensor_read_back(DB, req[w].id, F))

CreateTemperature(w) ==
    /\ pc[w] = "idle"
    /\ next_log_id <= MaxLogs
    /\ \E body \in BodiesOf(w, CreateTemperatureBodies), F \in FaultsOf(w, ExecFaults) :
          Step(w, Request("create_temperature", 0, body), create_temperature(DB, body, F))

CreateTemperatureReadBack(w) ==
    /\ pc[w] = "readback" /\ req[w].ep = "create_temperature"
    /\ \E F \in FaultsOf(w, FetchFaults) : Step(w, req[w], create_temperature_read_back(DB, last_id[w], F))

ListTemperatures(w) ==
    /\ pc[w] = "idle" /\ General(w)
    /\ \E limit \in Limits, offset \in Offsets, F \in FetchFaults :
          Step(w, [Request("list_temperatures", 0, NotJson) EXCEPT
                      !.limit = limit, !.offset = offset],
               list_temperatures(DB, limit, offset, F))

GetLog(w) ==
    /\ pc[w] = "idle" /\ General(w)
    /\ \E id \in PathLogIds, F \in FetchFaults :
          Step(w, Request("get_log", id, NotJson), get_log(DB, id, F))

UpdateLog(w) ==
    /\ pc[w] = "idle"
    /\ \E id \in PathLogIds, body \in BodiesOf(w, UpdateLogBodies), F \in FaultsOf(w, ExecFaults) :
          Step(w, Request("update_log", id, body), update_log(DB, id, body, F))

UpdateLogReadBack(w) ==
    /\ pc[w] = "readback" /\ req[w].ep = "update_log"
    /\ \E F \in FaultsOf(w, FetchFaults) : Step(w, req[w], update_log_read_back(DB, req[w].id, F))

DeleteLog(w) ==
    /\ pc[w] = "idle"
    /\ \E id \in PathLogIds, F \in FaultsOf(w, ExecFaults) :
          Step(w, Request("delete_log", id, NotJson), delete_log(DB, id, F))

\* The response has been sent; the worker takes the next request.
Return(w) ==
    /\ pc[w] = "done"
    /\ pc' = [pc EXCEPT ![w] = "idle"]
    /\ req' = [req EXCEPT ![w] = NoRequest]
    /\ resp' = [resp EXCEPT ![w] = NoResponse]
    /\ last_id' = [last_id EXCEPT ![w] = 0]
    /\ db_calls' = [db_calls EXCEPT ![w] = 0]
    /\ trace' = [trace EXCEPT ![w] = NoTrace]
    /\ UNCHANGED <<sensors, temperature_log, next_log_id, open_conns, conn, del_ok>>

Next ==
    \E w \in Workers :
        \/ Home(w)
        \/ Health(w)
        \/ ListSensors(w)
        \/ GetSensor(w)
        \/ CreateSensor(w)
        \/ CreateSensorReadBack(w)
        \/ UpdateSensor(w)
        \/ UpdateSensorReadBack(w)
        \/ CreateTemperature(w)
        \/ CreateTemperatureReadBack(w)
        \/ ListTemperatures(w)
        \/ GetLog(w)
        \/ UpdateLog(w)
        \/ UpdateLogReadBack(w)
        \/ DeleteLog(w)
        \/ Return(w)


-----------------------------------------------------------------------------
(* Properties.                                                             *)

Done(w) == pc[w] = "done"
Answered(w, ep) == Done(w) /\ req[w].ep = ep

\* The body passed require_json and is a JSON object with every key of required.
HasAll(rq, required) ==
    /\ rq.body.is_json /\ rq.body.kind = "map"
    /\ Range(required) \subseteq rq.body.keys

WriteHandlers ==
    {"create_sensor", "update_sensor", "create_temperature", "update_log", "delete_log"}
GenericMessages ==
    {"Failed to create sensor", "Failed to update sensor", "Failed to create log",
     "Failed to update log", "Failed to delete log"}

\* C1: no route handler lets an exception escape: every finished request has
\* a response with a status code, whatever the body and whatever the driver did.
C1_NoExceptionEscapes ==
    \A w \in Workers : Done(w) => resp[w].raised = "None" /\ resp[w].code # 0

\* C2: once a DB helper call has finished (returned or raised), the DB object
\* holds no connection and every connection it opened is closed, so no
\* connection is open between handler steps.
C2_NoConnectionLeftOpen ==
    /\ \A w \in Workers : conn[w] = "None"
    /\ open_conns = 0

\* C2 witness: an execute whose close() raised has finished.
C2_Witness ==
    \E w \in Workers :
        /\ Done(w) /\ trace[w].ran /\ trace[w].raised.origin = "close"
        /\ conn[w] = "None" /\ open_conns = 0

\* C3: execute commits exactly when the statement succeeded; when the
\* statement or the commit raised it rolls back, the database keeps no effect
\* of the statement, and the caller receives that original exception.
C3_ExecuteReraisesOriginal ==
    \A w \in Workers :
        trace[w].ran /\ trace[w].first.origin # "connect" =>
            /\ trace[w].commit_called <=> trace[w].first.origin # "stmt"
            /\ trace[w].committed <=> trace[w].first = NoExc
            /\ trace[w].first # NoExc =>
                  /\ trace[w].rollback_called
                  /\ ~trace[w].changed
                  /\ trace[w].raised = trace[w].first

\* At most one sensors row per sensor_id.
UniqueSensorIds ==
    \A r, q \in sensors : r.sensor_id = q.sensor_id => r = q

\* C4 as stated: a well-formed POST /api/v1/sensors naming an existing
\* sensor_id is answered 400 with the integrity-error message and changes
\* nothing, and sensor_id stays unique.
C4_DuplicateSensorIsIntegrityError ==
    /\ UniqueSensorIds
    /\ \A w \in Workers :
          Answered(w, "create_sensor") /\ HasAll(req[w], SensorRequired) /\ req[w].had_sensor =>
              /\ resp[w].code = 400
              /\ resp[w].text = "Integrity error: "
              /\ ~trace[w].changed

\* C4 amended: the answer is 400 and nothing changes; the message is the
\* integrity-error message with the driver's detail when execute raised the
\* INSERT's IntegrityError (which it does unless the connect, the statement's
\* transport, the rollback or the close failed), and "Failed to create
\* sensor" otherwise; sensor_id stays unique.
C4_DuplicateSensorRejected ==
    /\ UniqueSensorIds
    /\ \A w \in Workers :
          Answered(w, "create_sensor") /\ HasAll(req[w], SensorRequired) /\ req[w].had_sensor =>
              /\ resp[w].code = 400
              /\ ~trace[w].changed
              /\ trace[w].ran /\ trace[w].raised # NoExc
              /\ trace[w].first.origin = "stmt" /\ trace[w].first.detail # "Lost connection during query"
                    => trace[w].first.type = "IntegrityError"
              /\ IF trace[w].raised.type = "IntegrityError"
                 THEN resp[w].text = "Integrity error: " /\ resp[w].args = <<trace[w].raised.detail>>
                 ELSE resp[w].text = "Failed to create sensor"
                      /\ trace[w].raised.origin \in {"connect", "stmt", "rollback", "close"}

\* C4 witness: a duplicate create answered with the driver's duplicate-key detail.
C4_Witness ==
    \E w \in Workers :
        /\ Answered(w, "create_sensor") /\ req[w].had_sensor
        /\ resp[w].code = 400 /\ resp[w].args = <<DupDetail>>
        /\ Cardinality(sensors) = 1

ForeignKeysHold ==
    \A r \in temperature_log : SensorRows(DB, r.sensor_id) # {}

\* The request names, as an integer sensor_id in its body, a sensor that is not there.
NamesMissingSensor(rq) == NamesSensor(rq) /\ ~rq.had_sensor

C6_NotFoundOnlyWhenAbsent ==
    \A w \in Workers :
        Answered(w, "update_sensor") /\ resp[w].code \in {200, 404} =>
            /\ resp[w].code = 404 <=> ~req[w].had_sensor
            /\ ~req[w].had_sensor => ~trace[w].changed

\* C7: DELETE of a log_id is answered 200 at most once; a DELETE served
\* without a driver failure is answered 200 when the row was there and 404
\* when it was not; once a DELETE was answered 200 the row stays absent.
C7_DeleteOnce ==
    /\ \A id \in PathLogIds :
          /\ del_ok[id] <= 1
          /\ del_ok[id] >= 1 => LogRows(DB, id) = {}
    /\ \A w \in Workers :
          Answered(w, "delete_log") /\ trace[w].raised = NoExc =>
              /\ resp[w].code = IF req[w].had_log THEN 200 ELSE 404
              /\ req[w].had_log => del_ok[req[w].id] = 1

\* C7 witness: the second DELETE of a deleted log has been answered 404.
C7_Witness ==
    \E w \in Workers :
        /\ Answered(w, "delete_log") /\ resp[w].code = 404
        /\ del_ok[req[w].id] = 1

\* The request fails one of the handlers' validations: content type, required
\* fields, read_time format, numeric fields, updatable fields, limit / offset.
NonNumeric(v) == v.t = "str" /\ v.s \notin NumericStrings
FailsValidation(rq) ==
    LET b == rq.body
        bad_time == "read_time" \in b.keys /\ Truthy(b.val.read_time)
                    /\ ParseReadTime(b.val.read_time).exc # "None"
        bad_number == \E k \in b.keys \cap {"sensor_id", "temperature_f", "humidity", "pressure"} :
                          NonNumeric(b.val[k])
    IN  \/ rq.ep \in WriteHandlers \ {"delete_log"} /\ ~b.is_json
        \/ rq.ep = "list_temperatures" /\ (NonNumeric(rq.limit) \/ NonNumeric(rq.offset))
        \/ /\ b.is_json /\ b.kind # "num"
           /\ \/ rq.ep = "create_sensor" /\ (~HasAll(rq, SensorRequired) \/ bad_number)
              \/ rq.ep = "create_temperature"
                    /\ (~HasAll(rq, LogRequired) \/ bad_time \/ bad_number)
              \/ rq.ep = "update_sensor" /\ b.keys \cap Range(SensorUpdatable) = {}
              \/ rq.ep = "update_log"
                    /\ (b.keys \cap Range(LogUpdatable) = {} \/ bad_time \/ bad_number)

\* C8: a request that fails validation is answered 400 or 415 with a message
\* naming the problem, and no DB helper call is made for it.
C8_ValidationErrorsAreDescriptive ==
    \A w \in Workers :
        Done(w) /\ FailsValidation(req[w]) =>
            /\ resp[w].code \in {400, 415}
            /\ resp[w].text \notin GenericMessages
            /\ db_calls[w] = 0

\* C9: when the write statement of a write handler raised an IntegrityError
\* (and execute passed it on to the handler), the answer is 400 and carries
\* the driver's detail text.
C9_IntegrityDetailSurfaced ==
    \A w \in Workers :
        Done(w) /\ req[w].ep \in WriteHandlers /\ trace[w].ran
                /\ trace[w].first.type = "IntegrityError"
                /\ trace[w].raised = trace[w].first =>
            /\ resp[w].code = 400
            /\ resp[w].text = "Integrity error: "
            /\ resp[w].args = <<trace[w].first.detail>>

\* The row a POST /api/v1/temperatures body submits, as the API returns it.
SubmittedLog(rq, id) ==
    LET b == rq.body
    IN  as_json_log([log_id |-> id,
                     read_time |-> IF "read_time" \in b.keys /\ Truthy(b.val.read_time)
                                   THEN ParseReadTime(b.val.read_time).val ELSE Now,
                     sensor_id |-> PyInt(b.val.sensor_id).val,
                     temperature_f |-> PyFloat(b.val.temperature_f).val,
                     humidity |-> PyFloat(b.val.humidity).val,
                     pressure |-> PyFloat(b.val.pressure).val])

\* C10: every 201 of POST /api/v1/temperatures carries the created row: the
\* generated log_id with the submitted fields.
C10_CreatedRowReturned ==
    \A w \in Workers :
        Answered(w, "create_temperature") /\ resp[w].code = 201 =>
            /\ trace[w].committed
            /\ resp[w].row = <<SubmittedLog(req[w], last_id[w])>>

Spec == Init /\ [][Next]_vars

====
